---------------------------- MODULE Spec2Model ----------------------------
(***************************************************************************)
(* Model of the usbsolver driver: the solve session of UsbSolver           *)
(* (src/src/usb_solver.rs) on top of the UsbDerive device handle           *)
(* (src/usbderive/src/derive.rs).                                          *)
(*                                                                         *)
(* Three specifications share the module:                                  *)
(*   Spec        the solve session, the stop channel, the result channel   *)
(*               and the device link, at the granularity of frames;        *)
(*   SpecFraming UsbDerive::read at the granularity of bytes (BufReader,   *)
(*               read_until, the chunks the serial port delivers);         *)
(*   SpecTarget  the pure function difficulty_to_target_u32 over pairs of  *)
(*               difficulties.                                             *)
(*                                                                         *)
(* Integers wider than 31 bits are kept as big-endian byte sequences: a    *)
(* U256 is 32 bytes, a u32 target is 4 bytes.                              *)
(***************************************************************************)
EXTENDS Integers, Sequences, FiniteSets, TLC

\* -------------------------------------------------------------------------
\* Bounds of the model
\* -------------------------------------------------------------------------
\* difficulties 1..MaxSmallD are among the sampled difficulty values
MaxSmallD == 3

\* solve calls made on the one solver (the handle is reused between them)
MaxSessions == 2

\* frames the device side of the link holds before the host reads them
MaxLink == 2

\* messages the caller puts on the stop channel of one session
MaxStopMsgs == 1

\* bytes of a frame of the byte-level device stream
MaxFrameLen == 2

\* read() calls made on the byte-level device stream
MaxReads == 3

\* serial ports the enumeration of the system returns
MaxPorts == 3

\* -------------------------------------------------------------------------
\* 256-bit unsigned arithmetic (starcoin_types::U256), big-endian bytes
\* -------------------------------------------------------------------------
U256Bytes == 32

Byte == 0..255

\* U256::max_value(): 2^256 - 1
U256Max == [i \in 1..U256Bytes |-> 255]

U256Zero == [i \in 1..U256Bytes |-> 0]

RECURSIVE Pow2Int(_)
Pow2Int(k) == IF k = 0 THEN 1 ELSE 2 * Pow2Int(k - 1)

\* the U256 value 2^k, 0 <= k < 256
U256Pow2(k) ==
    [i \in 1..U256Bytes |->
        IF i = U256Bytes - (k \div 8) THEN Pow2Int(k % 8) ELSE 0] \o <<>>

\* the U256 value n, for a natural n < 2^31
U256FromNat(n) ==
    [i \in 1..U256Bytes |->
        IF i > U256Bytes - 4
        THEN (n \div Pow2Int(8 * (U256Bytes - i))) % 256
        ELSE 0] \o <<>>

\* a < b for the bytes at positions from..Len(a) of two big-endian byte
\* sequences of one length
SuffixLess(a, b, from) ==
    \E k \in from..Len(a) :
        /\ a[k] < b[k]
        /\ \A m \in from..(k - 1) : a[m] = b[m]

BytesGeq(a, b) == ~SuffixLess(a, b, 1)

\* a - b (a >= b); byte i borrows when the bytes after it are less in a
BytesSub(a, b) ==
    [i \in 1..Len(a) |->
        (256 + a[i] - b[i] - (IF SuffixLess(a, b, i + 1) THEN 1 ELSE 0)) % 256]
    \o <<>>

\* 2 * a, on Len(a) bytes (the carry out of the first byte is dropped)
BytesDouble(a) ==
    [i \in 1..Len(a) |->
        (2 * a[i] + (IF i < Len(a) /\ a[i + 1] >= 128 THEN 1 ELSE 0)) % 256]
    \o <<>>

\* d * 2^j on 33 bytes, for a U256 d and 0 <= j <= 7
RECURSIVE Shifted(_, _)
Shifted(d, j) == IF j = 0 THEN <<0>> \o d ELSE BytesDouble(Shifted(d, j - 1))

\* One quotient byte of the long division: rem (33 bytes, rem < 256 * d) is
\* reduced below d; bit j of the byte is set when d * 2^j is subtracted.
RECURSIVE DivDigit(_, _, _, _)
DivDigit(rem, sh, j, digit) ==
    IF j < 0 THEN [rem |-> rem, digit |-> digit]
    ELSE IF BytesGeq(rem, sh[j + 1])
         THEN DivDigit(BytesSub(rem, sh[j + 1]), sh, j - 1, digit + Pow2Int(j))
         ELSE DivDigit(rem, sh, j - 1, digit)

\* Long division of n by d, byte i of n onwards; rem < d on 33 bytes.
\* (The test on r.digit only makes the digit be computed before the next.)
RECURSIVE DivFrom(_, _, _, _, _)
DivFrom(n, sh, i, rem, quot) ==
    IF i > Len(n) THEN quot
    ELSE LET r == DivDigit(Tail(rem) \o <<n[i]>>, sh, 7, 0)
             q == Append(quot, r.digit)
         IN  IF Len(q) = i THEN DivFrom(n, sh, i + 1, r.rem, q) ELSE <<>>

\* U256 division n / d: the floor of the quotient (d nonzero; the library
\* panics on a zero divisor)
U256Div(n, d) ==
    DivFrom(n, [j \in 1..8 |-> Shifted(d, j - 1)], 1,
            [i \in 1..(U256Bytes + 1) |-> 0], <<>>)

\* -------------------------------------------------------------------------
\* Arithmetic the properties are stated with (not used by the model)
\* -------------------------------------------------------------------------
\* column k (1 = most significant) of the schoolbook product of two 32-byte
\* numbers, before carries: the sum of a[i] * b[j] over i + j = k + 1
RECURSIVE ColumnSum(_, _, _, _)
ColumnSum(a, b, k, i) ==
    IF i > Len(a) THEN 0
    ELSE (IF k + 1 - i >= 1 /\ k + 1 - i <= Len(b) THEN a[i] * b[k + 1 - i] ELSE 0)
         + ColumnSum(a, b, k, i + 1)

\* the carries are propagated from column k down to column 1; acc holds the
\* bytes of the columns after k
RECURSIVE Propagate(_, _, _, _)
Propagate(cols, k, carry, acc) ==
    IF k = 0 THEN <<carry % 256>> \o acc
    ELSE LET v == cols[k] + carry
             next == <<v % 256>> \o acc
         IN  IF Len(next) > 0 THEN Propagate(cols, k - 1, v \div 256, next) ELSE <<>>

\* a * b on 64 bytes, for two 32-byte numbers
BytesMul(a, b) ==
    Propagate([k \in 1..(2 * Len(a) - 1) |-> ColumnSum(a, b, k, 1)] \o <<>>,
              2 * Len(a) - 1, 0, <<>>)

\* a + b on Len(a) bytes (two numbers of one length, no carry out)
BytesAdd(a, b) ==
    [i \in 1..Len(a) |->
        (a[i] + b[i]
         + (IF \E k \in (i + 1)..Len(a) :
                   /\ a[k] + b[k] > 255
                   /\ \A m \in (i + 1)..(k - 1) : a[m] + b[m] = 255
            THEN 1 ELSE 0)) % 256]
    \o <<>>

ZeroBytes(n) == [i \in 1..n |-> 0] \o <<>>

\* q is the floor of n / d: n = q * d + r for some r with 0 <= r < d
IsFloorQuotient(q, n, d) ==
    \E r \in { BytesSub(ZeroBytes(U256Bytes) \o n, BytesMul(q, d)) } :
        /\ BytesGeq(ZeroBytes(U256Bytes) \o n, BytesMul(q, d))
        /\ SubSeq(r, 1, U256Bytes) = ZeroBytes(U256Bytes)
        /\ ~BytesGeq(SubSeq(r, U256Bytes + 1, 2 * U256Bytes), d)

\* -------------------------------------------------------------------------
\* UsbSolver::difficulty_to_target_u32
\* -------------------------------------------------------------------------
\* the mutant reads the u32 from the least significant end of the buffer
difficulty_to_target_u32_tail(difficulty) ==
    LET tb == U256Div(U256Max, difficulty)
    IN  SubSeq(tb, U256Bytes - 3, U256Bytes)

\* target = U256::max_value() / difficulty; tb = its 32 big-endian bytes;
\* read_u32::<BigEndian> of a cursor at offset 0: the first four bytes.
\* The u32 is kept as its four big-endian bytes.
difficulty_to_target_u32(difficulty) ==
    LET target256 == U256Div(U256Max, difficulty)
        tb        == target256
    IN  SubSeq(tb, 1, 4)

\* -------------------------------------------------------------------------
\* Inputs of a solve call (MintBlockEvent) and device data
\* -------------------------------------------------------------------------
\* blob[35..39] of usb_solver.rs:75, Rust offsets (first inclusive, last exclusive)
ExtraStart == 35

ExtraEnd == 39

\* Option<BlockHeaderExtra>: None is the empty sequence, Some(e) is <<e>>
NoExtra == <<>>

SomeExtra(e) == <<e>>

\* the MintBlockEvents of the model
Events ==
    { [difficulty |-> U256Pow2(250), minting_blob |-> [i \in 1..ExtraEnd |-> i],
       extra |-> NoExtra],
      [difficulty |-> U256FromNat(1000),
       minting_blob |-> [i \in 1..(ExtraEnd + 1) |-> 255 - i],
       extra |-> SomeExtra(<<170, 187, 204, 221>>)] }

\* the difficulties SpecTarget converts: all nonzero
Difficulties ==
    { U256FromNat(n) : n \in 1..MaxSmallD }
    \cup { U256Pow2(k) : k \in {26, 31, 32, 250, 255} }
    \cup { U256FromNat(1000), U256FromNat(67108863), U256Max }

\* difficulty_to_target_u32 over the difficulties of the model, tabulated
\* (the division is evaluated once for each of them)
TargetTable ==
    { <<d, difficulty_to_target_u32(d)>> :
        d \in Difficulties \cup { e.difficulty : e \in Events } }

TargetOf(d) == (CHOOSE p \in TargetTable : p[1] = d)[2]

\* values of rng.gen::<u8>()
JobIds == { 17, 42 }

\* nonces and hashes the device reports
Nonces == { 66 }

Hashes == { <<171, 1>> }

NoEvent == [difficulty |-> U256Zero, minting_blob |-> <<>>, extra |-> NoExtra]

\* -------------------------------------------------------------------------
\* Wire messages and frames (crate::proto), at the granularity of frames
\* -------------------------------------------------------------------------
\* Message::write_job_msg(job_id, target, data)
write_job_msg(id, tgt, data) ==
    [op |-> "WriteJob", job_id |-> id, target |-> tgt, payload |-> data]

\* Message::get_state_msg()
get_state_msg == [op |-> "QueryState", job_id |-> 0, target |-> <<>>, payload |-> <<>>]

NoMsg == [op |-> "None", job_id |-> 0, target |-> <<>>, payload |-> <<>>]

\* frames on the link, device to host
SolvedFrame(id, n, h) == [t |-> "SolvedJob", job_id |-> id, nonce |-> n, hash |-> h]

StateFrame == [t |-> "State", job_id |-> 0, nonce |-> 0, hash |-> <<>>]

\* an acknowledgement or any frame the codec does not recognise
NoiseFrame == [t |-> "Noise", job_id |-> 0, nonce |-> 0, hash |-> <<>>]

\* what is left of a frame whose first bytes an abandoned read consumed:
\* bytes up to the next terminator that the codec does not recognise
PartialFrame == NoiseFrame

\* DeriveResponse values; ReadErr is the Err(_) of a failed read
OtherResp == [t |-> "Other", job_id |-> 0, nonce |-> 0, hash |-> <<>>]

ReadErr == [t |-> "Err", job_id |-> 0, nonce |-> 0, hash |-> <<>>]

NoResp == [t |-> "None", job_id |-> 0, nonce |-> 0, hash |-> <<>>]

\* DeriveResponse::new(raw_resp): state frames and solved-job frames are
\* parsed, every other frame is Other
DeriveResponse_new(frame) ==
    IF frame.t \in {"SolvedJob", "State"} THEN frame ELSE OtherResp

\* hex::encode
HexDigit(n) == SubSeq("0123456789abcdef", n + 1, n + 1)

RECURSIVE hex_encode(_)
hex_encode(bytes) ==
    IF bytes = <<>> THEN ""
    ELSE HexDigit(Head(bytes) \div 16) \o HexDigit(Head(bytes) % 16)
         \o hex_encode(Tail(bytes))

\* -------------------------------------------------------------------------
\* State
\* -------------------------------------------------------------------------
VARIABLES
    \* the solve session (UsbSolver::solve)
    pc,          \* position of the session, see Init
    sessions,    \* solve calls made so far
    event,       \* the MintBlockEvent of the call
    target,      \* local: the u32 target, four big-endian bytes
    job_id,      \* local: the job id drawn for the session
    blob,        \* local: the minting blob with the extra bytes spliced in
    last_write,  \* the last message written to the port, and whether it went out
    \* the channels of the call
    stop_rx,     \* messages pending on the stop channel
    stop_open,   \* the sender of the stop channel is alive
    sent,        \* SealEvents handed to nonce_tx.send in this session
    received,    \* SealEvents the receiver of the result channel got
    \* the device and the link
    link,        \* frames the device has produced and the host has not read
    dev_job,     \* job id the device works on (0: none)
    dev_query,   \* the device owes a reply to a QueryState
    \* history of the session
    first_job,   \* the WriteJob message of the initial submission
    stop_pc,     \* position of the session when the first stop message was
                 \* sent, if no read had returned SolvedJob before ("none"
                 \* otherwise)
    solved_read, \* the last SolvedJob response a read of this session
                 \* returned, and the caller of that read
    ops          \* what the session did on the port and the stop channel
                 \* since the start of the current poll iteration (since
                 \* the call, before the first stop check)

session_vars ==
    << pc, sessions, event, target, job_id, blob, last_write,
       stop_rx, stop_open, sent, received,
       link, dev_job, dev_query,
       first_job, stop_pc, solved_read, ops >>

VARIABLES
    \* the conversion of two difficulties (SpecTarget)
    diff_a,      \* a difficulty
    diff_b,      \* another difficulty
    target_a,    \* difficulty_to_target_u32(diff_a), <<>> before the call
    target_b     \* difficulty_to_target_u32(diff_b), <<>> before the call

target_vars == << diff_a, diff_b, target_a, target_b >>

VARIABLES
    \* UsbDerive::read byte by byte (SpecFraming)
    stream,      \* the bytes the device sends, in order
    port_pos,    \* how many of them the serial port has delivered to the host
    rd_pc,       \* "idle", or "reading" inside a call of read()
    raw_resp,    \* the local vector of read(): the bytes accumulated so far
    raw_from,    \* the offset in stream of the first byte of raw_resp
    decoded,     \* what the calls handed to DeriveResponse::new, in order
    rd_calls,    \* calls of read() made
    rd_errs      \* calls of read() that returned Err

framing_vars ==
    << stream, port_pos, rd_pc, raw_resp, raw_from, decoded, rd_calls, rd_errs >>

VARIABLES
    \* UsbSolver::new and create_solver (SpecNew)
    avail,       \* the result of serialport::available_ports()
    new_pc,      \* position inside UsbSolver::new
    usb_ports,   \* local ports: what detect returned
    port_i,      \* the port the for loop of new is at
    usb_derive,  \* local: 0 for None, else the port_name of the opened port
    warned,      \* warn! lines written by the loop (failed opens)
    wire,        \* messages written to the opened port, with their results
    ack_errs,    \* reads of an acknowledgement that failed
    new_ret,     \* what new returned: "none" before it returns
    solver,      \* create_solver: "none", "returned" or "panicked"
    solving      \* the host has called solve on the solver

new_vars ==
    << avail, new_pc, usb_ports, port_i, usb_derive, warned, wire, ack_errs,
       new_ret, solver, solving >>

VARIABLES
    \* UsbDerive::detect as a function (SpecDetect)
    det_avail,   \* the result of serialport::available_ports()
    det_vid,     \* argument vid
    det_pid,     \* argument pid
    det_ret      \* what detect returned, NoRet before the call

detect_vars == << det_avail, det_vid, det_pid, det_ret >>

vars == << session_vars, target_vars, framing_vars, new_vars, detect_vars >>

Terminal == { "Solved", "Cancelled", "Fatal" }

Running == { "start", "set_job_read", "check", "read", "write_state", "resubmit" }

\* -------------------------------------------------------------------------
\* UsbDerive::read, at the granularity of frames
\* -------------------------------------------------------------------------
\* The outcomes of one read() on a link holding the frames l:
\*  - the first frame decoded; the k - 1 frames after it that the port
\*    delivered in the same chunk are in the BufReader of this call and are
\*    dropped with it (derive.rs:75 builds a new BufReader per call);
\*  - Err (time-out or transport error) with nothing consumed;
\*  - Err after part of the first frame was consumed: raw_resp is dropped,
\*    the rest of the frame stays on the link.
\* SpecFraming models the same function byte by byte.
read(l) ==
    { [ret |-> ReadErr, link |-> l] }
    \cup
    ( IF l = <<>> THEN {}
      ELSE { [ret |-> DeriveResponse_new(Head(l)), link |-> SubSeq(l, k + 1, Len(l))] :
                k \in 1..Len(l) }
           \cup { [ret |-> ReadErr, link |-> <<PartialFrame>> \o Tail(l)] } )

\* the mutant splices one byte early (offsets 34..38)
splice_one_early(data, extra) ==
    [i \in 1..Len(data) |->
        IF i >= ExtraStart /\ i < ExtraEnd THEN extra[i - ExtraStart + 1] ELSE data[i]]

\* blob[35..39].borrow_mut().write_all(extra.as_slice())
splice(data, extra) ==
    [i \in 1..Len(data) |->
        IF i > ExtraStart /\ i <= ExtraEnd THEN extra[i - ExtraStart] ELSE data[i]]

\* usb_solver.rs:71-74
extra_of(ev) == IF ev.extra = NoExtra THEN <<0, 0, 0, 0>> ELSE ev.extra[1]

\* the mutant reports the extra bytes that were spliced: an absent extra
\* comes back as four zero bytes
SealEvent_default_extra(ev, seal) ==
    [minting_blob |-> ev.minting_blob, nonce |-> seal.nonce,
     extra |-> SomeExtra(extra_of(ev)), hash_result |-> hex_encode(seal.hash)]

\* the SealEvent of usb_solver.rs:92-97
SealEvent(ev, seal) ==
    [minting_blob |-> ev.minting_blob, nonce |-> seal.nonce,
     extra |-> ev.extra, hash_result |-> hex_encode(seal.hash)]

\* -------------------------------------------------------------------------
\* Init: the solver has been constructed, no solve call has been made
\* -------------------------------------------------------------------------
InitSession ==
    /\ pc = "Idle"
    /\ sessions = 0
    /\ event = NoEvent
    /\ target = <<>>
    /\ job_id = 0
    /\ blob = <<>>
    /\ last_write = [msg |-> NoMsg, ok |-> TRUE]
    /\ stop_rx = <<>>
    /\ stop_open = TRUE
    /\ sent = <<>>
    /\ received = <<>>
    /\ link = <<>>
    /\ dev_job = 0
    /\ dev_query = FALSE
    /\ first_job = NoMsg
    /\ stop_pc = "none"
    /\ solved_read = [by |-> "none", ret |-> NoResp]
    /\ ops = <<>>

\* -------------------------------------------------------------------------
\* The solve session
\* -------------------------------------------------------------------------
\* The caller invokes solve(event, nonce_tx, stop_rx) with fresh channels;
\* the device and the link are those the previous call left.
Call(ev) ==
    /\ pc \in {"Idle"} \cup Terminal
    /\ sessions < MaxSessions
    /\ pc' = "start"
    /\ sessions' = sessions + 1
    /\ event' = ev
    /\ target' = <<>>
    /\ job_id' = 0
    /\ blob' = <<>>
    /\ last_write' = [msg |-> NoMsg, ok |-> TRUE]
    /\ stop_rx' = <<>>
    /\ stop_open' = TRUE
    /\ sent' = <<>>
    /\ received' = <<>>
    /\ first_job' = NoMsg
    /\ stop_pc' = "none"
    /\ solved_read' = [by |-> "none", ret |-> NoResp]
    /\ ops' = <<>>
    /\ UNCHANGED << link, dev_job, dev_query,
                    target_vars, framing_vars,
                    new_vars, detect_vars >>

\* the first half of UsbDerive::set_job: the message is built and written;
\* a failed write is the Err the caller sees (derive.rs:100-101)
SetJobWrite(id, tgt, data, ok) ==
    /\ last_write' = [msg |-> write_job_msg(id, tgt, data), ok |-> ok]
    /\ dev_job' = IF ok THEN id ELSE dev_job
    /\ pc' = IF ok THEN "set_job_read" ELSE "Fatal"
    /\ ops' = Append(ops, "WriteJob")

\* the mutant treats a failed initial submission like a failed read: it
\* goes on to submit the job again
Submit_retry(id, ok) ==
    /\ pc = "start"
    /\ target' = TargetOf(event.difficulty)
    /\ job_id' = id
    /\ blob' = splice(event.minting_blob, extra_of(event))
    /\ last_write' = [msg |-> write_job_msg(id, target', blob'), ok |-> ok]
    /\ dev_job' = IF ok THEN id ELSE dev_job
    /\ pc' = IF ok THEN "set_job_read" ELSE "resubmit"
    /\ ops' = Append(ops, "WriteJob")
    /\ first_job' = write_job_msg(id, target', blob')
    /\ UNCHANGED << sessions, event, stop_rx, stop_open, sent, received,
                    link, dev_query, stop_pc, solved_read,
                    target_vars, framing_vars,
                    new_vars, detect_vars >>

\* usb_solver.rs:66-80: target, job id, spliced blob, initial submission
Submit(id, ok) ==
    /\ pc = "start"
    /\ target' = TargetOf(event.difficulty)
    /\ job_id' = id
    /\ blob' = splice(event.minting_blob, extra_of(event))
    /\ SetJobWrite(id, target', blob', ok)
    /\ first_job' = write_job_msg(id, target', blob')
    /\ UNCHANGED << sessions, event, stop_rx, stop_open, sent, received,
                    link, dev_query, stop_pc, solved_read,
                    target_vars, framing_vars,
                    new_vars, detect_vars >>

\* the mutant goes from the re-submission straight to the next poll read,
\* without the stop check
SetJobRead_skip_check ==
    /\ pc = "set_job_read"
    /\ \E o \in read(link) :
          /\ link' = o.link
          /\ solved_read' = IF o.ret.t = "SolvedJob"
                            THEN [by |-> "set_job", ret |-> o.ret]
                            ELSE solved_read
    /\ pc' = "read"
    /\ ops' = Append(ops, "read-and-discard")
    /\ UNCHANGED << sessions, event, target, job_id, blob, last_write,
                    stop_rx, stop_open, sent, received,
                    dev_job, dev_query, first_job, stop_pc,
                    target_vars, framing_vars,
                    new_vars, detect_vars >>

\* the second half of UsbDerive::set_job: let _ = self.read() (derive.rs:102)
SetJobRead ==
    /\ pc = "set_job_read"
    /\ \E o \in read(link) :
          /\ link' = o.link
          /\ solved_read' = IF o.ret.t = "SolvedJob"
                            THEN [by |-> "set_job", ret |-> o.ret]
                            ELSE solved_read
    /\ pc' = "check"
    /\ ops' = Append(ops, "read-and-discard")
    /\ UNCHANGED << sessions, event, target, job_id, blob, last_write,
                    stop_rx, stop_open, sent, received,
                    dev_job, dev_query, first_job, stop_pc,
                    target_vars, framing_vars,
                    new_vars, detect_vars >>

\* the mutant stops only on a pending message: a closed and empty channel
\* lets the loop go on to the read
StopCheck_ignores_closed ==
    /\ pc = "check"
    /\ ops' = <<"stop check">>
    /\ IF stop_rx # <<>>
       THEN /\ stop_rx' = Tail(stop_rx)
            /\ pc' = "Cancelled"
       ELSE /\ stop_rx' = stop_rx
            /\ pc' = "read"
    /\ UNCHANGED << sessions, event, target, job_id, blob, last_write,
                    stop_open, sent, received, link, dev_job, dev_query,
                    first_job, stop_pc, solved_read,
                    target_vars, framing_vars,
                    new_vars, detect_vars >>

\* the mutant stops only on a pending true: a pending false is consumed and
\* the loop goes on to the read
StopCheck_only_true ==
    /\ pc = "check"
    /\ ops' = <<"stop check">>
    /\ IF stop_rx # <<>>
       THEN /\ stop_rx' = Tail(stop_rx)
            /\ pc' = IF Head(stop_rx) THEN "Cancelled" ELSE "read"
       ELSE /\ stop_rx' = stop_rx
            /\ pc' = IF stop_open THEN "read" ELSE "Cancelled"
    /\ UNCHANGED << sessions, event, target, job_id, blob, last_write,
                    stop_open, sent, received, link, dev_job, dev_query,
                    first_job, stop_pc, solved_read,
                    target_vars, framing_vars,
                    new_vars, detect_vars >>

\* usb_solver.rs:83-86: stop_rx.try_next().is_ok(): Ok(Some(_)) for a pending
\* message, Ok(None) for a closed and empty channel, Err while it is open
\* and empty
StopCheck ==
    /\ pc = "check"
    /\ ops' = <<"stop check">>
    /\ IF stop_rx # <<>>
       THEN /\ stop_rx' = Tail(stop_rx)
            /\ pc' = "Cancelled"
       ELSE /\ stop_rx' = stop_rx
            /\ pc' = IF stop_open THEN "read" ELSE "Cancelled"
    /\ UNCHANGED << sessions, event, target, job_id, blob, last_write,
                    stop_open, sent, received, link, dev_job, dev_query,
                    first_job, stop_pc, solved_read,
                    target_vars, framing_vars,
                    new_vars, detect_vars >>

\* the mutant polls on when the send of the result failed (the receiver
\* is gone)
PollRead_polls_on_send_failure ==
    /\ pc = "read"
    /\ \E o \in read(link) :
          /\ link' = o.link
          /\ ops' = Append(ops, "read " \o o.ret.t)
          /\ IF o.ret.t = "SolvedJob"
             THEN /\ solved_read' = [by |-> "poll", ret |-> o.ret]
                  /\ sent' = Append(sent, SealEvent(event, o.ret))
                  /\ \E receiver_alive \in BOOLEAN :
                        /\ received' = IF receiver_alive
                                       THEN Append(received, SealEvent(event, o.ret))
                                       ELSE received
                        /\ pc' = IF receiver_alive THEN "Solved" ELSE "check"
             ELSE /\ UNCHANGED << sent, received, solved_read >>
                  /\ pc' = IF o.ret.t = "Err" THEN "write_state" ELSE "check"
    /\ UNCHANGED << sessions, event, target, job_id, blob, last_write,
                    stop_rx, stop_open, dev_job, dev_query,
                    first_job, stop_pc,
                    target_vars, framing_vars,
                    new_vars, detect_vars >>

\* the mutant treats a response that is not SolvedJob like a failed read:
\* it goes on to the state query and the re-submission
PollRead_resubmit_on_other ==
    /\ pc = "read"
    /\ \E o \in read(link) :
          /\ link' = o.link
          /\ ops' = Append(ops, "read " \o o.ret.t)
          /\ IF o.ret.t = "SolvedJob"
             THEN /\ solved_read' = [by |-> "poll", ret |-> o.ret]
                  /\ sent' = Append(sent, SealEvent(event, o.ret))
                  /\ \E receiver_alive \in BOOLEAN :
                        received' = IF receiver_alive
                                    THEN Append(received, SealEvent(event, o.ret))
                                    ELSE received
                  /\ pc' = "Solved"
             ELSE /\ UNCHANGED << sent, received, solved_read >>
                  /\ pc' = "write_state"
    /\ UNCHANGED << sessions, event, target, job_id, blob, last_write,
                    stop_rx, stop_open, dev_job, dev_query,
                    first_job, stop_pc,
                    target_vars, framing_vars,
                    new_vars, detect_vars >>

\* the mutant sends the result and polls on (no break after the send)
PollRead_no_break ==
    /\ pc = "read"
    /\ \E o \in read(link) :
          /\ link' = o.link
          /\ ops' = Append(ops, "read " \o o.ret.t)
          /\ IF o.ret.t = "SolvedJob"
             THEN /\ solved_read' = [by |-> "poll", ret |-> o.ret]
                  /\ sent' = Append(sent, SealEvent(event, o.ret))
                  /\ received' = Append(received, SealEvent(event, o.ret))
                  /\ pc' = "check"
             ELSE /\ UNCHANGED << sent, received, solved_read >>
                  /\ pc' = IF o.ret.t = "Err" THEN "write_state" ELSE "check"
    /\ UNCHANGED << sessions, event, target, job_id, blob, last_write,
                    stop_rx, stop_open, dev_job, dev_query,
                    first_job, stop_pc,
                    target_vars, framing_vars,
                    new_vars, detect_vars >>

\* usb_solver.rs:88-109: the poll read and the match on its result. The send
\* on nonce_tx fails when the receiver is gone; its result is dropped.
PollRead ==
    /\ pc = "read"
    /\ \E o \in read(link) :
          /\ link' = o.link
          /\ ops' = Append(ops, "read " \o o.ret.t)
          /\ IF o.ret.t = "SolvedJob"
             THEN /\ solved_read' = [by |-> "poll", ret |-> o.ret]
                  /\ sent' = Append(sent, SealEvent(event, o.ret))
                  /\ \E receiver_alive \in BOOLEAN :
                        received' = IF receiver_alive
                                    THEN Append(received, SealEvent(event, o.ret))
                                    ELSE received
                  /\ pc' = "Solved"
             ELSE /\ UNCHANGED << sent, received, solved_read >>
                  /\ pc' = IF o.ret.t = "Err" THEN "write_state" ELSE "check"
    /\ UNCHANGED << sessions, event, target, job_id, blob, last_write,
                    stop_rx, stop_open, dev_job, dev_query,
                    first_job, stop_pc,
                    target_vars, framing_vars,
                    new_vars, detect_vars >>

\* UsbDerive::write_state: the QueryState message is written to the port
\* and nothing is read; ok is the result of the write
write_state(ok) == [msg |-> get_state_msg, ok |-> ok]

\* the mutant returns from solve when the state query cannot be written
WriteState_fatal(ok) ==
    /\ pc = "write_state"
    /\ last_write' = write_state(ok)
    /\ ops' = Append(ops, "QueryState")
    /\ dev_query' = (dev_query \/ ok)
    /\ pc' = IF ok THEN "resubmit" ELSE "Fatal"
    /\ UNCHANGED << sessions, event, target, job_id, blob,
                    stop_rx, stop_open, sent, received, link, dev_job,
                    first_job, stop_pc, solved_read,
                    target_vars, framing_vars,
                    new_vars, detect_vars >>

\* usb_solver.rs:110-111: let _ = self.derive.write_state()
WriteState(ok) ==
    /\ pc = "write_state"
    /\ last_write' = write_state(ok)
    /\ ops' = Append(ops, "QueryState")
    /\ dev_query' = (dev_query \/ ok)
    /\ pc' = "resubmit"
    /\ UNCHANGED << sessions, event, target, job_id, blob,
                    stop_rx, stop_open, sent, received, link, dev_job,
                    first_job, stop_pc, solved_read,
                    target_vars, framing_vars,
                    new_vars, detect_vars >>

\* the mutant draws a new job id for the re-submission
Resubmit_fresh_id(ok) ==
    /\ pc = "resubmit"
    /\ \E id \in JobIds : SetJobWrite(id, target, blob, ok)
    /\ UNCHANGED << sessions, event, target, job_id, blob,
                    stop_rx, stop_open, sent, received, link, dev_query,
                    first_job, stop_pc, solved_read,
                    target_vars, framing_vars,
                    new_vars, detect_vars >>

\* usb_solver.rs:112-115: the job is submitted again
Resubmit(ok) ==
    /\ pc = "resubmit"
    /\ SetJobWrite(job_id, target, blob, ok)
    /\ UNCHANGED << sessions, event, target, job_id, blob,
                    stop_rx, stop_open, sent, received, link, dev_query,
                    first_job, stop_pc, solved_read,
                    target_vars, framing_vars,
                    new_vars, detect_vars >>

\* -------------------------------------------------------------------------
\* The caller's side of the stop channel
\* -------------------------------------------------------------------------
StopSend(b) ==
    /\ pc \in Running
    /\ stop_open
    /\ Len(stop_rx) < MaxStopMsgs
    /\ stop_rx' = Append(stop_rx, b)
    /\ stop_pc' = IF stop_pc = "none" /\ solved_read.by = "none" THEN pc ELSE stop_pc
    /\ UNCHANGED << ops, pc, sessions, event, target, job_id, blob, last_write,
                    stop_open, sent, received, link, dev_job, dev_query,
                    first_job, solved_read,
                    target_vars, framing_vars,
                    new_vars, detect_vars >>

\* the sender of the stop channel is dropped
StopDrop ==
    /\ pc \in Running
    /\ stop_open
    /\ stop_open' = FALSE
    /\ UNCHANGED << ops, pc, sessions, event, target, job_id, blob, last_write,
                    stop_rx, sent, received, link, dev_job, dev_query,
                    first_job, stop_pc, solved_read,
                    target_vars, framing_vars,
                    new_vars, detect_vars >>

\* -------------------------------------------------------------------------
\* The device
\* -------------------------------------------------------------------------
\* somebody may still read what the device sends
Listening == pc \in Running \/ sessions < MaxSessions

DeviceSend(frame) ==
    /\ Listening
    /\ Len(link) < MaxLink
    /\ link' = Append(link, frame)

\* the device reports a solution of the job it holds
DeviceSolved(n, h) ==
    /\ dev_job # 0
    /\ DeviceSend(SolvedFrame(dev_job, n, h))
    /\ UNCHANGED << ops, pc, sessions, event, target, job_id, blob, last_write,
                    stop_rx, stop_open, sent, received, dev_job, dev_query,
                    first_job, stop_pc, solved_read,
                    target_vars, framing_vars,
                    new_vars, detect_vars >>

\* the device answers a QueryState
DeviceState ==
    /\ dev_query
    /\ DeviceSend(StateFrame)
    /\ dev_query' = FALSE
    /\ UNCHANGED << ops, pc, sessions, event, target, job_id, blob, last_write,
                    stop_rx, stop_open, sent, received, dev_job,
                    first_job, stop_pc, solved_read,
                    target_vars, framing_vars,
                    new_vars, detect_vars >>

\* the device acknowledges a message, or the line carries noise
DeviceNoise ==
    /\ pc \in Running
    /\ DeviceSend(NoiseFrame)
    /\ UNCHANGED << ops, pc, sessions, event, target, job_id, blob, last_write,
                    stop_rx, stop_open, sent, received, dev_job, dev_query,
                    first_job, stop_pc, solved_read,
                    target_vars, framing_vars,
                    new_vars, detect_vars >>

NextSession ==
    \/ \E ev \in Events : Call(ev)
    \/ \E id \in JobIds, ok \in BOOLEAN : Submit(id, ok)
    \/ SetJobRead
    \/ StopCheck
    \/ PollRead
    \/ \E ok \in BOOLEAN : WriteState(ok)
    \/ \E ok \in BOOLEAN : Resubmit(ok)
    \/ \E b \in BOOLEAN : StopSend(b)
    \/ StopDrop
    \/ \E n \in Nonces, h \in Hashes : DeviceSolved(n, h)
    \/ DeviceState
    \/ DeviceNoise

\* -------------------------------------------------------------------------
\* SpecTarget: difficulty_to_target_u32 on two difficulties
\* -------------------------------------------------------------------------
NoTargets ==
    /\ diff_a = U256Zero
    /\ diff_b = U256Zero
    /\ target_a = <<>>
    /\ target_b = <<>>

InitTarget ==
    /\ diff_a \in Difficulties
    /\ diff_b \in Difficulties
    /\ target_a = <<>>
    /\ target_b = <<>>

ConvertA ==
    /\ target_a = <<>>
    /\ target_a' = TargetOf(diff_a)
    /\ UNCHANGED << diff_a, diff_b, target_b,
                    session_vars, framing_vars,
                    new_vars, detect_vars >>

ConvertB ==
    /\ target_b = <<>>
    /\ target_b' = TargetOf(diff_b)
    /\ UNCHANGED << diff_a, diff_b, target_a,
                    session_vars, framing_vars,
                    new_vars, detect_vars >>

NextTarget == ConvertA \/ ConvertB

\* -------------------------------------------------------------------------
\* SpecFraming: UsbDerive::read byte by byte
\* -------------------------------------------------------------------------
\* crate::constants::PKT_ENDER, the terminator of a frame
PKT_ENDER == <<85, 170>>

\* the bytes of frames; no frame holds the terminator
FrameBytes == { 1, 2 }

Frames == UNION { [1..n -> FrameBytes] : n \in 1..MaxFrameLen }

EndsWithEnder(s) ==
    /\ Len(s) >= Len(PKT_ENDER)
    /\ SubSeq(s, Len(s) - Len(PKT_ENDER) + 1, Len(s)) = PKT_ENDER

\* crate::read_until(reader, &PKT_ENDER, buf) on one chunk the BufReader
\* got from the port: bytes go from the chunk to buf until buf ends with
\* the terminator. done: the terminator was seen; used: bytes taken from
\* the chunk; buf: the bytes accumulated (the terminator taken off when
\* done).
read_until(chunk, buf) ==
    LET hits == { j \in 1..Len(chunk) : EndsWithEnder(buf \o SubSeq(chunk, 1, j)) }
    IN  IF hits = {}
        THEN [done |-> FALSE, used |-> Len(chunk), buf |-> buf \o chunk]
        ELSE LET j == CHOOSE h \in hits : \A g \in hits : h <= g
                 all == buf \o SubSeq(chunk, 1, j)
             IN  [done |-> TRUE, used |-> j,
                  buf |-> SubSeq(all, 1, Len(all) - Len(PKT_ENDER))]

NoFraming ==
    /\ stream = <<>>
    /\ port_pos = 0
    /\ rd_pc = "idle"
    /\ raw_resp = <<>>
    /\ raw_from = 0
    /\ decoded = <<>>
    /\ rd_calls = 0
    /\ rd_errs = 0

\* the device sends frame1, terminator, frame2, terminator
InitFraming ==
    /\ \E frame1 \in Frames, frame2 \in Frames :
          stream = frame1 \o PKT_ENDER \o frame2 \o PKT_ENDER
    /\ port_pos = 0
    /\ rd_pc = "idle"
    /\ raw_resp = <<>>
    /\ raw_from = 0
    /\ decoded = <<>>
    /\ rd_calls = 0
    /\ rd_errs = 0

\* derive.rs:74-75: read() is entered: an empty raw_resp, a new BufReader
ReadEnter ==
    /\ rd_pc = "idle"
    /\ rd_calls < MaxReads
    /\ rd_pc' = "reading"
    /\ rd_calls' = rd_calls + 1
    /\ raw_resp' = <<>>
    /\ raw_from' = port_pos
    /\ UNCHANGED << stream, port_pos, decoded, rd_errs,
                    session_vars, target_vars,
                    new_vars, detect_vars >>

\* derive.rs:76-77: the BufReader is empty and reads the port, which
\* delivers the next k bytes in one chunk; read_until takes bytes from the
\* chunk. When it sees the terminator, read() hands raw_resp to
\* DeriveResponse::new and returns: the BufReader is dropped, and with it
\* the bytes of the chunk after the terminator.
ReadChunk(k) ==
    /\ rd_pc = "reading"
    /\ k \in 1..(Len(stream) - port_pos)
    /\ LET r == read_until(SubSeq(stream, port_pos + 1, port_pos + k), raw_resp)
       IN  /\ port_pos' = port_pos + k
           /\ IF r.done
              THEN /\ decoded' = Append(decoded, [from |-> raw_from, bytes |-> r.buf])
                   /\ raw_resp' = <<>>
                   /\ rd_pc' = "idle"
              ELSE /\ decoded' = decoded
                   /\ raw_resp' = r.buf
                   /\ rd_pc' = "reading"
    /\ UNCHANGED << stream, raw_from, rd_calls, rd_errs,
                    session_vars, target_vars,
                    new_vars, detect_vars >>

\* derive.rs:76: the read of the port fails (the time-out elapses before
\* more bytes arrive, or the transport fails): the ? returns the error and
\* raw_resp is dropped
ReadFail ==
    /\ rd_pc = "reading"
    /\ rd_pc' = "idle"
    /\ raw_resp' = <<>>
    /\ rd_errs' = rd_errs + 1
    /\ UNCHANGED << stream, port_pos, raw_from, decoded, rd_calls,
                    session_vars, target_vars,
                    new_vars, detect_vars >>

NextFraming ==
    \/ ReadEnter
    \/ \E k \in 1..(2 * MaxFrameLen + 2 * Len(PKT_ENDER)) : ReadChunk(k)
    \/ ReadFail

\* -------------------------------------------------------------------------
\* Discovery: UsbDerive::detect
\* -------------------------------------------------------------------------
\* const VID, const PID
VID == 1155

PID == 22336

\* the kinds of SerialPortInfo: USB ports with the ids asked for, with one
\* of them different, with the two swapped, and a port that is not USB
PortKinds ==
    { [port_type |-> "UsbPort", vid |-> VID, pid |-> PID],
      [port_type |-> "UsbPort", vid |-> VID, pid |-> PID + 1],
      [port_type |-> "UsbPort", vid |-> VID + 1, pid |-> PID],
      [port_type |-> "UsbPort", vid |-> PID, pid |-> VID],
      [port_type |-> "PciPort", vid |-> 0, pid |-> 0] }

\* a SerialPortInfo; the port_name is the place of the port in the
\* enumeration
PortInfo(i, kind) ==
    [port_name |-> i, port_type |-> kind.port_type, vid |-> kind.vid, pid |-> kind.pid]

\* results of serialport::available_ports(): Ok(ports) or Err
Enumerations ==
    { [ok |-> FALSE, ports |-> <<>>] }
    \cup { [ok |-> TRUE, ports |-> [i \in 1..Len(f) |-> PortInfo(i, f[i])] \o <<>>] :
             f \in UNION { [1..n -> PortKinds] : n \in 0..MaxPorts } }

NoRet == [ok |-> FALSE, ports |-> <<"none">>]

\* the mutant compares the vendor id only
RECURSIVE detect_loop_vid_only(_, _, _, _, _)
detect_loop_vid_only(ports, i, vid, pid, found) ==
    IF i > Len(ports) THEN found
    ELSE detect_loop_vid_only(ports, i + 1, vid, pid,
            IF ports[i].port_type = "UsbPort" /\ ports[i].vid = vid
            THEN Append(found, ports[i])
            ELSE found)

\* derive.rs:52-58: the for loop over ports; found is usb_ports
RECURSIVE detect_loop(_, _, _, _, _)
detect_loop(ports, i, vid, pid, found) ==
    IF i > Len(ports) THEN found
    ELSE detect_loop(ports, i + 1, vid, pid,
            IF /\ ports[i].port_type = "UsbPort"
               /\ ports[i].vid = vid
               /\ ports[i].pid = pid
            THEN Append(found, ports[i])
            ELSE found)

detect_vid_only(enumeration, vid, pid) ==
    IF ~enumeration.ok THEN [ok |-> FALSE, ports |-> <<>>]
    ELSE [ok |-> TRUE, ports |-> detect_loop_vid_only(enumeration.ports, 1, vid, pid, <<>>)]

\* UsbDerive::detect(vid, pid): the ? returns the error of the enumeration
detect(enumeration, vid, pid) ==
    IF ~enumeration.ok THEN [ok |-> FALSE, ports |-> <<>>]
    ELSE [ok |-> TRUE, ports |-> detect_loop(enumeration.ports, 1, vid, pid, <<>>)]

NoDetect ==
    /\ det_avail = [ok |-> FALSE, ports |-> <<>>]
    /\ det_vid = 0
    /\ det_pid = 0
    /\ det_ret = NoRet

InitDetect ==
    /\ det_avail \in Enumerations
    /\ det_vid \in {VID, VID + 1}
    /\ det_pid \in {PID, PID + 1}
    /\ det_ret = NoRet

Detect ==
    /\ det_ret = NoRet
    /\ det_ret' = detect(det_avail, det_vid, det_pid)
    /\ UNCHANGED << det_avail, det_vid, det_pid,
                    session_vars, target_vars, framing_vars, new_vars >>

NextDetect == Detect

\* -------------------------------------------------------------------------
\* SpecNew: UsbSolver::new and create_solver
\* -------------------------------------------------------------------------
\* Config::default()
Config_default ==
    [target_freq |-> 600, target_voltage |-> 750, read_timeout |-> 0,
     baud_rate |-> 115200]

\* Message::set_hw_params_msg(target_freq, target_voltage)
set_hw_params_msg(freq, voltage) ==
    [op |-> "SetHardwareParams", target_freq |-> freq, target_voltage |-> voltage]

\* Message::opcode_msg()
opcode_msg == [op |-> "SetOpcode", target_freq |-> 0, target_voltage |-> 0]

\* the errors new returns: the error of available_ports() passed on by
\* detect, the bail! of usb_solver.rs:40, the error of a write passed on by
\* set_hw_params or set_opcode
ErrEnumeration == "serialport::Error (available_ports)"

ErrNoDerive == "No usb derive found"

ErrWrite == "io::Error (write)"

NoNew ==
    /\ avail = [ok |-> FALSE, ports |-> <<>>]
    /\ new_pc = "none"
    /\ usb_ports = <<>>
    /\ port_i = 0
    /\ usb_derive = 0
    /\ warned = 0
    /\ wire = <<>>
    /\ ack_errs = 0
    /\ new_ret = "none"
    /\ solver = "none"
    /\ solving = FALSE

\* create_solver has been called and new is entered
InitNew ==
    /\ avail \in Enumerations
    /\ new_pc = "detect"
    /\ usb_ports = <<>>
    /\ port_i = 0
    /\ usb_derive = 0
    /\ warned = 0
    /\ wire = <<>>
    /\ ack_errs = 0
    /\ new_ret = "none"
    /\ solver = "none"
    /\ solving = FALSE

\* usb_solver.rs:25: let ports = UsbDerive::detect(VID, PID)?
NewDetect ==
    /\ new_pc = "detect"
    /\ LET ports == detect(avail, VID, PID)
       IN  IF ports.ok
           THEN /\ usb_ports' = ports.ports
                /\ port_i' = 1
                /\ new_pc' = "open"
                /\ new_ret' = new_ret
           ELSE /\ usb_ports' = usb_ports
                /\ port_i' = port_i
                /\ new_pc' = "done"
                /\ new_ret' = ErrEnumeration
    /\ UNCHANGED << avail, usb_derive, warned, wire, ack_errs, solver, solving,
                    session_vars, target_vars, framing_vars, detect_vars >>

\* usb_solver.rs:27-38: one turn of the for loop: the port is opened and
\* the loop is left, or the failure is logged and the next port is tried
NewOpen(ok) ==
    /\ new_pc = "open"
    /\ port_i <= Len(usb_ports)
    /\ IF ok
       THEN /\ usb_derive' = usb_ports[port_i].port_name
            /\ new_pc' = "set_hw_params"
            /\ UNCHANGED << port_i, warned >>
       ELSE /\ warned' = warned + 1
            /\ port_i' = port_i + 1
            /\ UNCHANGED << usb_derive, new_pc >>
    /\ UNCHANGED << avail, usb_ports, wire, ack_errs, new_ret, solver, solving,
                    session_vars, target_vars, framing_vars, detect_vars >>

\* usb_solver.rs:39-42: the loop ended with usb_derive = None
NewNoDerive ==
    /\ new_pc = "open"
    /\ port_i > Len(usb_ports)
    /\ new_pc' = "done"
    /\ new_ret' = ErrNoDerive
    /\ UNCHANGED << avail, usb_ports, port_i, usb_derive, warned, wire, ack_errs,
                    solver, solving,
                    session_vars, target_vars, framing_vars, detect_vars >>

\* the write of set_hw_params and set_opcode (derive.rs:93-94, 107-108):
\* the ? returns the error of the write, which the ? of new passes on
ConfigWrite(msg, ok, then) ==
    /\ wire' = Append(wire, [msg |-> msg, ok |-> ok])
    /\ new_pc' = IF ok THEN then ELSE "done"
    /\ new_ret' = IF ok THEN new_ret ELSE ErrWrite

\* usb_solver.rs:43 and derive.rs:93-94
SetHwParamsWrite(ok) ==
    /\ new_pc = "set_hw_params"
    /\ ConfigWrite(set_hw_params_msg(Config_default.target_freq,
                                     Config_default.target_voltage),
                   ok, "set_hw_params_read")
    /\ UNCHANGED << avail, usb_ports, port_i, usb_derive, warned, ack_errs,
                    solver, solving,
                    session_vars, target_vars, framing_vars, detect_vars >>

\* the mutant passes the error of the read on to new
SetHwParamsRead_propagates(ok) ==
    /\ new_pc = "set_hw_params_read"
    /\ ack_errs' = ack_errs + (IF ok THEN 0 ELSE 1)
    /\ new_pc' = IF ok THEN "set_opcode" ELSE "done"
    /\ new_ret' = IF ok THEN new_ret ELSE "io::Error (read)"
    /\ UNCHANGED << avail, usb_ports, port_i, usb_derive, warned, wire,
                    solver, solving,
                    session_vars, target_vars, framing_vars, detect_vars >>

\* derive.rs:95-96: let _ = self.read(); Ok(())
SetHwParamsRead(ok) ==
    /\ new_pc = "set_hw_params_read"
    /\ ack_errs' = ack_errs + (IF ok THEN 0 ELSE 1)
    /\ new_pc' = "set_opcode"
    /\ UNCHANGED << avail, usb_ports, port_i, usb_derive, warned, wire, new_ret,
                    solver, solving,
                    session_vars, target_vars, framing_vars, detect_vars >>

\* usb_solver.rs:44 and derive.rs:107-108
SetOpcodeWrite(ok) ==
    /\ new_pc = "set_opcode"
    /\ ConfigWrite(opcode_msg, ok, "set_opcode_read")
    /\ UNCHANGED << avail, usb_ports, port_i, usb_derive, warned, ack_errs,
                    solver, solving,
                    session_vars, target_vars, framing_vars, detect_vars >>

\* derive.rs:110-111 and usb_solver.rs:45-47: the read is dropped, new
\* returns Ok(Self { derive })
SetOpcodeRead(ok) ==
    /\ new_pc = "set_opcode_read"
    /\ ack_errs' = ack_errs + (IF ok THEN 0 ELSE 1)
    /\ new_pc' = "done"
    /\ new_ret' = "Ok"
    /\ UNCHANGED << avail, usb_ports, port_i, usb_derive, warned, wire,
                    solver, solving,
                    session_vars, target_vars, framing_vars, detect_vars >>

\* lib.rs:6-8: Box::new(UsbSolver::new().expect(..)): the solver is
\* returned, or the expect panics with the error
CreateSolver ==
    /\ new_pc = "done"
    /\ solver = "none"
    /\ solver' = IF new_ret = "Ok" THEN "returned" ELSE "panicked"
    /\ UNCHANGED << avail, new_pc, usb_ports, port_i, usb_derive, warned, wire,
                    ack_errs, new_ret, solving,
                    session_vars, target_vars, framing_vars, detect_vars >>

\* the host calls solve on the solver it got (a job is submitted by solve
\* only, usb_solver.rs:77)
SolveCall ==
    /\ solver = "returned"
    /\ ~solving
    /\ solving' = TRUE
    /\ UNCHANGED << avail, new_pc, usb_ports, port_i, usb_derive, warned, wire,
                    ack_errs, new_ret, solver,
                    session_vars, target_vars, framing_vars, detect_vars >>

NextNew ==
    \/ NewDetect
    \/ \E ok \in BOOLEAN : NewOpen(ok)
    \/ NewNoDerive
    \/ \E ok \in BOOLEAN : SetHwParamsWrite(ok)
    \/ \E ok \in BOOLEAN : SetHwParamsRead(ok)
    \/ \E ok \in BOOLEAN : SetOpcodeWrite(ok)
    \/ \E ok \in BOOLEAN : SetOpcodeRead(ok)
    \/ CreateSolver
    \/ SolveCall

\* -------------------------------------------------------------------------
\* Specifications
\* -------------------------------------------------------------------------
Init == InitSession /\ NoTargets /\ NoFraming /\ NoNew /\ NoDetect

Next == NextSession

Spec == Init /\ [][Next]_vars

InitT == InitTarget /\ InitSession /\ NoFraming /\ NoNew /\ NoDetect

NextT == NextTarget

SpecTarget == InitT /\ [][NextT]_vars

InitF == InitFraming /\ InitSession /\ NoTargets /\ NoNew /\ NoDetect

NextF == NextFraming

SpecFraming == InitF /\ [][NextF]_vars

InitN == InitNew /\ InitSession /\ NoTargets /\ NoFraming /\ NoDetect

NextN == NextNew

SpecNew == InitN /\ [][NextN]_vars

InitD == InitDetect /\ InitSession /\ NoTargets /\ NoFraming /\ NoNew

NextD == NextDetect

SpecDetect == InitD /\ [][NextD]_vars

\* -------------------------------------------------------------------------
\* Properties of the solve session (Spec)
\* -------------------------------------------------------------------------
\* C1: in every solve session at most one SealEvent is sent on the result
\* channel, and none is sent in a session that ends Cancelled or Fatal.
C1_AtMostOneResult ==
    /\ Len(sent) <= 1
    /\ Len(received) <= Len(sent)
    /\ pc \in {"Cancelled", "Fatal"} => sent = <<>> /\ received = <<>>

\* a session has sent its result while another SolvedJob frame is pending
C1_Witness ==
    /\ pc = "Solved"
    /\ Len(sent) = 1
    /\ link # <<>>
    /\ Head(link).t = "SolvedJob"

\* C2 as claimed: when the stop signal was set before any SolvedJob response
\* arrived, the session ends Cancelled and nothing is sent, whatever the
\* read in flight at that moment returns. (Sessions that a failed write ends
\* are left aside here: the statement is refuted without them.)
C2_CancelledWhateverTheReadReturns ==
    (pc \in Terminal \ {"Fatal"} /\ stop_pc # "none") =>
        (pc = "Cancelled" /\ sent = <<>>)

\* C2 as amended: when the stop signal was set before any SolvedJob response
\* arrived, the session ends Cancelled with nothing sent, except that it
\* ends Solved with that one result when the poll read in flight at that
\* moment returns SolvedJob, and Fatal with nothing sent when a submission
\* write fails before the next stop check.
C2_CancelledUnlessInFlightReadSolves ==
    (pc \in Terminal /\ stop_pc # "none") =>
        \/ pc = "Cancelled" /\ sent = <<>>
        \/ /\ pc = "Solved"
           /\ stop_pc = "read"
           /\ Len(sent) = 1
           /\ solved_read.by = "poll"
        \/ /\ pc = "Fatal"
           /\ stop_pc \in {"start", "read", "write_state", "resubmit"}
           /\ sent = <<>>

\* the signal was set while a poll read was in flight, and the session was
\* cancelled at the next check
C2_Witness ==
    /\ pc = "Cancelled"
    /\ stop_pc = "read"
    /\ sent = <<>>

\* C3 as claimed: every SolvedJob response a read of the session returned,
\* the read-and-discard of set_job included, is the SealEvent the session
\* sent.
C3_NoSolvedJobLost ==
    solved_read.by # "none" =>
        /\ sent # <<>>
        /\ sent[Len(sent)] = SealEvent(event, solved_read.ret)

\* C4 as claimed: a SealEvent is sent only for a SolvedJob response that
\* carries the job id the session submitted.
C4_OnlyTheSubmittedJob ==
    sent # <<>> => (solved_read.by = "poll" /\ solved_read.ret.job_id = job_id)

\* C5: a failed poll read leads to the QueryState write and the
\* re-submission, never to the end of the session; every WriteJob of the
\* session is the message of the initial submission; the session is Fatal
\* only after a WriteJob write failed.
C5_StateOk ==
    /\ last_write.msg.op = "WriteJob" =>
          /\ last_write.msg = first_job
          /\ last_write.msg = write_job_msg(job_id, target, blob)
    /\ pc = "Fatal" => (last_write.msg.op = "WriteJob" /\ ~last_write.ok)
    /\ pc \in {"set_job_read", "check", "read", "write_state", "resubmit"} =>
          first_job = write_job_msg(job_id, target, blob)

C5_StepOk ==
    /\ pc = "read" => pc' \in {"read", "check", "write_state", "Solved"}
    /\ pc = "write_state" => pc' \in {"write_state", "resubmit"}
    /\ pc = "resubmit" => pc' \in {"resubmit", "set_job_read", "Fatal"}
    /\ (pc = "resubmit" /\ pc' = "Fatal") => ~last_write'.ok
    /\ pc = "set_job_read" => pc' \in {"set_job_read", "check"}
    /\ pc \in Running \ {"start"} =>
          (pc' \in Running => << job_id', target', blob', first_job' >>
                                  = << job_id, target, blob, first_job >>)

C5_ReadFailureResubmitsSameJob == []C5_StateOk /\ [][C5_StepOk]_vars

\* in a first session a QueryState went out (a poll read had failed), the
\* job was submitted again and the loop is polling again
C5_Witness ==
    /\ sessions = 1
    /\ pc = "read"
    /\ dev_query
    /\ last_write.msg = first_job
    /\ last_write.ok

\* C8: the payload of every WriteJob equals the caller's blob except at
\* offsets 35..39, which hold the extra bytes, or zeros without an extra;
\* initial submission and re-submissions alike.
C8_SplicedPayload ==
    last_write.msg.op = "WriteJob" =>
        LET p == last_write.msg.payload
            b == event.minting_blob
        IN  /\ Len(p) = Len(b)
            /\ \A off \in 0..(Len(b) - 1) :
                  p[off + 1] =
                    IF off >= ExtraStart /\ off < ExtraEnd
                    THEN (IF event.extra = NoExtra THEN 0
                          ELSE event.extra[1][off - ExtraStart + 1])
                    ELSE b[off + 1]

\* a job with an extra field and bytes after the splice went out a second
\* time
C8_Witness ==
    /\ last_write.msg.op = "WriteJob"
    /\ event.extra # NoExtra
    /\ Len(event.minting_blob) > ExtraEnd
    /\ pc = "set_job_read"
    /\ dev_query
    /\ sessions = 1

\* C10 as claimed: for difficulty 2^250 the target in WriteJob is 0x00000040.
C10_TargetIs0x40 ==
    (last_write.msg.op = "WriteJob" /\ event.difficulty = U256Pow2(250)) =>
        last_write.msg.target = <<0, 0, 0, 64>>

\* C10 as amended: for difficulty 2^250 the target in WriteJob is
\* 0x00000000: the quotient is 63, the last byte of the 32, and its first
\* four bytes are zero.
C10_TargetIsZero ==
    (last_write.msg.op = "WriteJob" /\ event.difficulty = U256Pow2(250)) =>
        /\ last_write.msg.target = <<0, 0, 0, 0>>
        /\ target = <<0, 0, 0, 0>>

C10_Witness ==
    /\ last_write.msg.op = "WriteJob"
    /\ last_write.ok
    /\ event.difficulty = U256Pow2(250)

\* -------------------------------------------------------------------------
\* Properties of difficulty_to_target_u32 (SpecTarget)
\* -------------------------------------------------------------------------
QuotientTable == { <<d, U256Div(U256Max, d)>> : d \in Difficulties }

QuotientOf(d) == (CHOOSE p \in QuotientTable : p[1] = d)[2]

\* t is the first four of the 32 big-endian bytes of floor((2^256 - 1) / d)
IsTopOfFloorQuotient(t, d) ==
    \E q \in { QuotientOf(d) } :
        /\ IsFloorQuotient(q, U256Max, d)
        /\ t = << q[1], q[2], q[3], q[4] >>

\* C9: the target of a nonzero difficulty is the most significant 32 bits
\* of floor((2^256 - 1) / D), and it does not increase when D increases.
C9_TargetOfFloorQuotient ==
    /\ target_a # <<>> => IsTopOfFloorQuotient(target_a, diff_a)
    /\ target_b # <<>> => IsTopOfFloorQuotient(target_b, diff_b)
    /\ (target_a # <<>> /\ target_b # <<>> /\ BytesGeq(diff_b, diff_a)) =>
          BytesGeq(target_a, target_b)

\* two difficulties, the second greater, with a smaller nonzero target
C9_Witness ==
    /\ target_a # <<>>
    /\ target_b # <<>>
    /\ diff_a # diff_b
    /\ BytesGeq(diff_b, diff_a)
    /\ target_a # target_b
    /\ target_b # <<0, 0, 0, 0>>

\* -------------------------------------------------------------------------
\* Properties of the framing (SpecFraming)
\* -------------------------------------------------------------------------
FirstEnd ==
    CHOOSE j \in 1..Len(stream) :
        /\ EndsWithEnder(SubSeq(stream, 1, j))
        /\ \A g \in 1..(j - 1) : ~EndsWithEnder(SubSeq(stream, 1, g))

\* frame1 and frame2 of the stream frame1, terminator, frame2, terminator
Frame1 == [from |-> 0, bytes |-> SubSeq(stream, 1, FirstEnd - Len(PKT_ENDER))]

Frame2 ==
    [from |-> FirstEnd,
     bytes |-> SubSeq(stream, FirstEnd + 1, Len(stream) - Len(PKT_ENDER))]

\* C6 as claimed: when no read fails, the first call returns frame1 and
\* leaves frame2 and its terminator to be read, and the second call returns
\* frame2, however the port chunks the bytes.
C6_TwoReadsTwoFrames ==
    rd_errs = 0 =>
        /\ Len(decoded) >= 1 => decoded[1] = Frame1
        /\ (Len(decoded) = 1 /\ rd_pc = "idle") => port_pos = FirstEnd
        /\ Len(decoded) >= 2 => decoded[2] = Frame2

\* C7 as claimed: everything handed to the decoder is a complete frame of
\* the stream, also after reads that failed.
C7_OnlyCompleteFrames ==
    \A i \in 1..Len(decoded) : decoded[i] \in {Frame1, Frame2}

\* -------------------------------------------------------------------------
\* Further properties of the solve session (Spec)
\* -------------------------------------------------------------------------
\* C11: the SealEvent sent for a SolvedJob response carries the nonce and
\* the (hex-encoded) hash of that response, the caller's extra field as
\* supplied (None stays None) and the caller's blob, unmodified outside
\* offsets 35..39.
C11_ResultOfTheResponse ==
    sent # <<>> =>
        LET r == sent[Len(sent)]
            s == solved_read.ret
            b == event.minting_blob
        IN  /\ s.t = "SolvedJob"
            /\ r.nonce = s.nonce
            /\ (s.hash = <<171, 1>> => r.hash_result = "ab01")
            /\ r.extra = event.extra
            /\ Len(r.minting_blob) = Len(b)
            /\ \A off \in 0..(Len(b) - 1) :
                  (off < ExtraStart \/ off >= ExtraEnd) =>
                      r.minting_blob[off + 1] = b[off + 1]

\* a result was sent for an event without an extra field
C11_Witness ==
    /\ pc = "Solved"
    /\ sent # <<>>
    /\ event.extra = NoExtra
    /\ sent[1].nonce = 66

\* C12: a session that has sent its result (delivered or not) has ended;
\* a session that has ended stays in its terminal state until the next
\* call, and reads nothing, writes nothing and checks nothing meanwhile.
C12_StateOk ==
    /\ pc \in {"Idle"} \cup Running \cup Terminal
    /\ sent # <<>> => pc = "Solved"

C12_StepOk ==
    pc \in Terminal =>
        \/ /\ pc' = pc
           /\ ops' = ops
           /\ last_write' = last_write
           /\ stop_rx' = stop_rx
           /\ sent' = sent
           /\ received' = received
           /\ Len(link') >= Len(link)
           /\ SubSeq(link', 1, Len(link)) = link
        \/ /\ pc' = "start"
           /\ sessions' = sessions + 1

C12_TerminatesOnce == []C12_StateOk /\ [][C12_StepOk]_vars

\* the result was sent to a receiver that is gone, and a frame is pending
\* on the link of the ended session
C12_Witness ==
    /\ pc = "Solved"
    /\ Len(sent) = 1
    /\ received = <<>>
    /\ link # <<>>

\* C13: when the write of the initial submission fails the session is
\* Fatal at once: nothing was read, the stop channel was not looked at,
\* nothing was sent, and the job is not written again.
C13_StepOk ==
    /\ (pc = "start" /\ pc' # "start") =>
          /\ ops' = <<"WriteJob">>
          /\ IF last_write'.ok
             THEN pc' = "set_job_read"
             ELSE /\ pc' = "Fatal"
                  /\ sent' = <<>>
                  /\ stop_rx' = stop_rx
                  /\ link' = link
    /\ (pc = "Fatal" /\ pc' = "Fatal") =>
          /\ ops' = ops
          /\ last_write' = last_write
          /\ stop_rx' = stop_rx
          /\ sent' = <<>>

C13_InitialFailureIsFatal == [][C13_StepOk]_vars

\* the initial submission of a first session failed while a stop message
\* was pending
C13_Witness ==
    /\ pc = "Fatal"
    /\ sessions = 1
    /\ ops = <<"WriteJob">>
    /\ ~last_write.ok
    /\ stop_rx # <<>>

\* C17: after a poll read that returned a State or an unrecognised
\* response the session is back at the stop check, having written nothing;
\* the next thing it does is the stop check, followed by a read or the end.
C17_StateOk ==
    (Len(ops) >= 2 /\ ops[2] \in {"read State", "read Other"}) =>
        /\ ops[1] = "stop check"
        /\ Len(ops) = 2
        /\ pc = "check"
        /\ sent = <<>>

C17_StepOk ==
    /\ (pc = "read" /\ pc' = "check") =>
          /\ last_write' = last_write
          /\ dev_job' = dev_job
          /\ dev_query' = dev_query
          /\ sent' = sent
    /\ (pc = "read" /\ pc' # "read" /\ link # <<>> /\ Len(link') < Len(link)
        /\ Head(link).t \in {"State", "Noise"}) =>
          pc' = "check"
    /\ (pc = "check" /\ pc' # "check") =>
          /\ pc' \in {"read", "Cancelled"}
          /\ ops' = <<"stop check">>
          /\ last_write' = last_write

C17_OtherResponsesAreIgnored == []C17_StateOk /\ [][C17_StepOk]_vars

\* a poll read has returned the State reply of the device
C17_Witness ==
    /\ pc = "check"
    /\ ops = <<"stop check", "read State">>

\* the stop signal is set: a message is pending or the sender is gone
StopSet == stop_rx # <<>> \/ ~stop_open

\* steps the session can still take from a position before it ends, when
\* the stop signal is set
Rank(p) ==
    CASE p = "start" -> 6
      [] p = "read" -> 5
      [] p = "write_state" -> 4
      [] p = "resubmit" -> 3
      [] p = "set_job_read" -> 2
      [] p = "check" -> 1
      [] OTHER -> 0

\* C18: once the stop signal is set it stays set while the session runs,
\* every step of the session brings it nearer to its end (the read in
\* flight, then the state query, the re-submission and its read if that
\* read failed, then the stop check), and the stop check ends it: no poll
\* read starts after the signal was set.
C18_StepOk ==
    (StopSet /\ pc \in Running) =>
        /\ pc' \in Running => StopSet'
        /\ pc' # pc => Rank(pc') < Rank(pc)
        /\ (pc = "check" /\ pc' # pc) => pc' = "Cancelled"
        /\ pc' = "read" => pc = "read"

C18_BoundedCancellation == [][C18_StepOk]_vars

\* the signal was set during a poll read, the read failed, and the
\* iteration has gone through the re-submission to the stop check
C18_Witness ==
    /\ pc = "check"
    /\ StopSet
    /\ stop_pc = "read"
    /\ ops = <<"stop check", "read Err", "QueryState", "WriteJob",
               "read-and-discard">>

\* C19: the stop check ends the session when a message is pending, true or
\* false, and when the channel is closed; it goes on to the read only when
\* the channel is open and empty. A pending message is consumed.
C19_StepOk ==
    (pc = "check" /\ pc' # "check") =>
        /\ pc' = IF stop_rx # <<>> \/ ~stop_open THEN "Cancelled" ELSE "read"
        /\ stop_rx # <<>> => stop_rx' = Tail(stop_rx)
        /\ (stop_rx # <<>> /\ Head(stop_rx) = FALSE) => pc' = "Cancelled"

C19_StopCheck == [][C19_StepOk]_vars

\* a session was cancelled by the closing of the stop channel alone: no
\* message was ever sent on it
C19_Witness ==
    /\ pc = "Cancelled"
    /\ ~stop_open
    /\ stop_pc = "none"
    /\ solved_read.by = "none"
    /\ dev_job # 0

\* the traffic of an iteration whose poll read failed
RetryTraffic ==
    << "stop check", "read Err", "QueryState", "WriteJob", "read-and-discard" >>

\* C20: after a failed poll read the session writes QueryState, then
\* WriteJob, then reads once and drops the response, and is back at the
\* stop check; a failed QueryState write does not end it (only a failed
\* WriteJob write does), and a State frame that a read consumes is never
\* sent as a result.
C20_StateOk ==
    /\ (Len(ops) >= 2 /\ ops[2] = "read Err") =>
          /\ Len(ops) <= Len(RetryTraffic)
          /\ ops = SubSeq(RetryTraffic, 1, Len(ops))
          /\ pc = CASE Len(ops) = 2 -> "write_state"
                    [] Len(ops) = 3 -> "resubmit"
                    [] Len(ops) = 4 -> IF last_write.ok THEN "set_job_read" ELSE "Fatal"
                    [] OTHER -> "check"
    /\ pc = "Fatal" =>
          /\ ops[Len(ops)] = "WriteJob"
          /\ last_write.msg.op = "WriteJob"
          /\ ~last_write.ok
    /\ sent # <<>> =>
          /\ ops = << "stop check", "read SolvedJob" >>
          /\ solved_read.ret.t = "SolvedJob"

C20_StepOk ==
    /\ (pc = "write_state" /\ pc' # pc) =>
          /\ pc' = "resubmit"
          /\ last_write'.msg = get_state_msg
          /\ link' = link
    /\ (link # <<>> /\ Head(link).t = "State" /\ Len(link') < Len(link)) =>
          /\ sent' = sent
          /\ pc' # "Solved"

C14_ConfigureInOrder ==
    /\ Len(wire) <= 2
    /\ Len(wire) >= 1 => wire[1].msg.op = "SetHardwareParams"
    /\ Len(wire) >= 2 => (wire[2].msg.op = "SetOpcode" /\ wire[1].ok)
    /\ (\E i \in 1..Len(wire) : ~wire[i].ok) =>
          /\ new_pc = "done"
          /\ new_ret \notin {"none", "Ok"}
          /\ solver # "returned"
          /\ ~solving
    /\ (new_pc = "done" /\ usb_derive # 0) =>
          /\ new_ret = "Ok" <=> (Len(wire) = 2 /\ wire[1].ok /\ wire[2].ok)
          /\ new_ret # "Ok" => \E i \in 1..Len(wire) : ~wire[i].ok
    /\ new_pc \in {"set_opcode", "set_opcode_read"} => new_ret = "none"
    /\ (solver = "returned" \/ solving) =>
          /\ new_ret = "Ok"
          /\ Len(wire) = 2
          /\ wire[1].ok
          /\ wire[2].ok

\* neither acknowledgement could be read, the solver was returned and solve
\* was called
C14_Witness ==
    /\ solving
    /\ ack_errs = 2
    /\ solver = "returned"

\* why new failed
FailureCase ==
    IF ~avail.ok THEN "enumeration failure"
    ELSE IF usb_ports = <<>> THEN "no device"
    ELSE IF usb_derive = 0 THEN "open failure"
    ELSE "configuration failure"

\* C15 as claimed: when new fails no solver is returned and solve is never
\* called, and the error tells the case: the error reported when no
\* matching device was found is not reported when a matching device was
\* found and could not be opened, nor when the configuration failed.
C15_CauseTellsTheCase ==
    (new_pc = "done" /\ new_ret # "Ok") =>
        /\ solver # "returned"
        /\ ~solving
        /\ new_ret = ErrNoDerive => FailureCase = "no device"
        /\ new_ret = ErrWrite => FailureCase = "configuration failure"

\* -------------------------------------------------------------------------
\* Properties of detect (SpecDetect)
\* -------------------------------------------------------------------------
\* the places in the enumeration of the USB ports with the ids asked for
Matching(ports, vid, pid) ==
    { i \in 1..Len(ports) :
        /\ ports[i].port_type = "UsbPort"
        /\ ports[i].vid = vid
        /\ ports[i].pid = pid }

\* C16: detect returns the ports of the enumeration that are USB ports
\* with the vendor id and the product id asked for: all of them, no other,
\* each once, in the order of the enumeration; an empty enumeration gives
\* Ok with no port.
C16_DetectFilters ==
    (det_ret # NoRet /\ det_avail.ok) =>
        LET r == det_ret.ports
            m == Matching(det_avail.ports, det_vid, det_pid)
        IN  /\ det_ret.ok
            /\ Len(r) = Cardinality(m)
            /\ \A k \in 1..Len(r) :
                  /\ r[k].port_name \in m
                  /\ r[k] = det_avail.ports[r[k].port_name]
            /\ \A k \in 1..Len(r), l \in 1..Len(r) :
                  k < l => r[k].port_name < r[l].port_name
            /\ det_avail.ports = <<>> => det_ret = [ok |-> TRUE, ports |-> <<>>]

\* two matching ports were returned, in order, and the port between them,
\* with the vendor id asked for and another product id, was left out
C16_Witness ==
    /\ det_ret # NoRet
    /\ det_ret.ok
    /\ Len(det_avail.ports) = 3
    /\ Len(det_ret.ports) = 2
    /\ det_ret.ports[1].port_name = 1
    /\ det_ret.ports[2].port_name = 3
    /\ det_avail.ports[2].port_type = "UsbPort"
    /\ det_avail.ports[2].vid = det_vid
    /\ det_avail.ports[2].pid # det_pid

=============================================================================
